---------------------------- MODULE Spec2Model ----------------------------
(***************************************************************************)
(* Model of diff2HtmlCompare.py: two JSON transcripts are flattened, diffed *)
(* by diff_match_patch, painted as an "original" and a "modified" HTML     *)
(* fragment, substituted into the page template, written to index.html and *)
(* converted to output.pdf.                                                *)
(*                                                                         *)
(* A Python string is a sequence of lexemes.  A lexeme is one character    *)
(* ("a", ":", the newline "\n") or one of the markup literals of the       *)
(* source ("<span class=\"add\">", "</span>", "<br>", ...) taken as an     *)
(* indivisible unit.  str + str is \o, str.replace('\n', '<br>') maps the  *)
(* newline lexeme to the line-break lexeme.                                *)
(***************************************************************************)
EXTENDS Integers, Sequences, FiniteSets, TLC

VARIABLES
    pc,                     \* position of the run in format / main / __main__
    file1,                  \* what is on disk at the path args.file1
    file2,                  \* what is on disk at the path args.file2
    fromlines,              \* format(): parsed JSON of file1, then its flattened text
    tolines,                \* format(): parsed JSON of file2, then its flattened text
    diff,                   \* format(): the edit script, a sequence of (code, text)
    painted_original_code,  \* format(): paint_text(diff, True)
    painted_modified_code,  \* format(): paint_text(diff)
    htmlContents,           \* format()'s return value, main()'s output_html
    index_html,             \* what is on disk at outputpath ("index.html")
    html_source,            \* __main__: the text read back from outputpath
    output_pdf,             \* what is on disk at "output.pdf"
    handles,                \* the file handles that are open
    error,                  \* the exception that ended the run, "" while there is none
    stages                  \* history: the pipeline stages completed so far, in order

vars == <<pc, file1, file2, fromlines, tolines, diff, painted_original_code,
          painted_modified_code, htmlContents, index_html, html_source,
          output_pdf, handles, error, stages>>

(***************************************************************************)
(* Bounds of the model.                                                    *)
(***************************************************************************)
MaxLen == 2        \* lexemes in the text of one segment of an edit script
MaxSegs == 2       \* segments in an edit script handed to paint_text
MaxEntries == 2    \* entries in a transcript file

(***************************************************************************)
(* Lexemes.                                                                *)
(***************************************************************************)
NL == "\n"
BR == "<br>"
SPAN_REMOVE == "<span class=\"remove\">"
SPAN_ADD == "<span class=\"add\">"
close_span == "</span>"
OpenContainer == <<"<body>", "<p class=\"text\">">>
CloseContainer == <<"</body>", "</p>">>

\* Every lexeme that is HTML markup.
Markup == {BR, SPAN_REMOVE, SPAN_ADD, close_span,
           "<body>", "<p class=\"text\">", "</body>", "</p>"}

\* What a segment's text is made of: a letter, a newline, and (the program
\* escapes nothing) a piece of markup typed into a transcript.
TextLexemes == {"a", NL, SPAN_ADD}

SeqsUpTo(S, n) == UNION {[1..k -> S] : k \in 0..n}

\* (code, text): code 0 is unchanged, -1 deleted, 1 inserted
Segments == [code : {-1, 0, 1}, text : SeqsUpTo(TextLexemes, MaxLen)]

(***************************************************************************)
(* paint_text                                                              *)
(***************************************************************************)
ReplaceNewlinesFirstOnly(s) ==
    [i \in 1..Len(s) |->
        IF s[i] = NL /\ \A j \in 1..(i - 1) : s[j] # NL THEN BR ELSE s[i]]

\* str.replace('\n', '<br>')
ReplaceNewlines(s) == [i \in 1..Len(s) |-> IF s[i] = NL THEN BR ELSE s[i]]

HtmlSpanAlwaysAdd(original) == SPAN_ADD

\* html_span, chosen by the view
HtmlSpan(original) == IF original THEN SPAN_REMOVE ELSE SPAN_ADD

PaintSegmentAnyView(complete_text, seg, original) ==
    IF seg.code = 0
    THEN complete_text \o seg.text
    ELSE complete_text \o <<HtmlSpan(original)>> \o seg.text \o <<close_span>>

\* One iteration of the loop over the edit script.
PaintSegment(complete_text, seg, original) ==
    IF seg.code = 0
    THEN complete_text \o seg.text
    ELSE IF seg.code = -1 /\ original
    THEN complete_text \o <<HtmlSpan(original)>> \o seg.text \o <<close_span>>
    ELSE IF seg.code = 1 /\ ~original
    THEN complete_text \o <<HtmlSpan(original)>> \o seg.text \o <<close_span>>
    ELSE complete_text

RECURSIVE PaintLoopSkipLast(_, _, _, _)
PaintLoopSkipLast(d, original, complete_text, i) ==
    IF i >= Len(d)
    THEN complete_text
    ELSE PaintLoopSkipLast(d, original,
                           PaintSegment(complete_text, d[i], original), i + 1)

RECURSIVE PaintLoop(_, _, _, _)
\* for index, (code, text) in enumerate(diff), from segment i on
PaintLoop(d, original, complete_text, i) ==
    IF i > Len(d)
    THEN complete_text
    ELSE PaintLoop(d, original, PaintSegment(complete_text, d[i], original), i + 1)

PaintTextNoReplace(d, original) ==
    PaintLoop(d, original, OpenContainer, 1) \o CloseContainer

\* paint_text(diff, original)
PaintText(d, original) ==
    ReplaceNewlines(PaintLoop(d, original, OpenContainer, 1)) \o CloseContainer

(***************************************************************************)
(* The transcript files                                                    *)
(***************************************************************************)
Keys == {"speaker", "transcription"}
Speakers == {<<"A">>, <<"B">>}
Utterances == {<<"x">>, <<"y">>}
ValuesOf(k) == IF k = "speaker" THEN Speakers ELSE Utterances

\* A JSON object of a transcript; either key may be absent.
Entries ==
    UNION {{e \in [D -> Speakers \cup Utterances] : \A k \in D : e[k] \in ValuesOf(k)} :
              D \in SUBSET Keys}

\* What a path may hold: no readable file, a file that is not JSON, or a
\* JSON array of objects.
FileStates ==
    {[kind |-> "missing", entries |-> <<>>], [kind |-> "garbage", entries |-> <<>>]}
       \cup {[kind |-> "json", entries |-> t] : t \in SeqsUpTo(Entries, MaxEntries)}

AbsentFile == [exists |-> FALSE, content |-> <<>>]

\* An index.html left in the working directory by an earlier run.
StaleFile == [exists |-> TRUE, content |-> <<"<!-- earlier run -->">>]

(***************************************************************************)
(* extract_data_from_json                                                  *)
(***************************************************************************)
RECURSIVE JoinNoSeparator(_, _)
JoinNoSeparator(list, sep) ==
    IF list = <<>> THEN <<>> ELSE Head(list) \o JoinNoSeparator(Tail(list), sep)

RECURSIVE Join(_, _)
\* sep.join(list)
Join(list, sep) ==
    IF list = <<>> THEN <<>>
    ELSE IF Len(list) = 1 THEN Head(list)
    ELSE Head(list) \o sep \o Join(Tail(list), sep)

RECURSIVE ExtractLoopSkipBad(_, _, _, _)
ExtractLoopSkipBad(json_obj, field, field_extraction, i) ==
    IF i > Len(json_obj)
    THEN [raised |-> "", value |-> Join(field_extraction, <<NL>>)]
    ELSE IF "speaker" \notin DOMAIN json_obj[i] \/ field \notin DOMAIN json_obj[i]
    THEN ExtractLoopSkipBad(json_obj, field, field_extraction, i + 1)
    ELSE ExtractLoopSkipBad(json_obj, field,
            Append(field_extraction,
                   json_obj[i]["speaker"] \o <<":", " ">> \o json_obj[i][field] \o <<NL>>),
            i + 1)

RECURSIVE ExtractLoop(_, _, _, _)
\* for line in json_obj, from entry i on, then the return; a subscript of an
\* absent key raises KeyError out of the function.
ExtractLoop(json_obj, field, field_extraction, i) ==
    IF i > Len(json_obj)
    THEN [raised |-> "", value |-> Join(field_extraction, <<NL>>)]
    ELSE IF "speaker" \notin DOMAIN json_obj[i] \/ field \notin DOMAIN json_obj[i]
    THEN [raised |-> "KeyError", value |-> <<>>]
    ELSE ExtractLoop(json_obj, field,
            Append(field_extraction,
                   json_obj[i]["speaker"] \o <<":", " ">> \o json_obj[i][field] \o <<NL>>),
            i + 1)

ExtractDataFromJson(json_obj, field) == ExtractLoop(json_obj, field, <<>>, 1)

(***************************************************************************)
(* diff_match_patch: diff_main and diff_cleanupSemantic, by their contract *)
(***************************************************************************)
Min(a, b) == IF a <= b THEN a ELSE b

CommonPrefixLen(a, b) ==
    CHOOSE n \in 0..Min(Len(a), Len(b)) :
        /\ SubSeq(a, 1, n) = SubSeq(b, 1, n)
        /\ \A m \in (n + 1)..Min(Len(a), Len(b)) : SubSeq(a, 1, m) # SubSeq(b, 1, m)

CommonSuffixLen(a, b) ==
    CHOOSE n \in 0..Min(Len(a), Len(b)) :
        /\ SubSeq(a, Len(a) - n + 1, Len(a)) = SubSeq(b, Len(b) - n + 1, Len(b))
        /\ \A m \in (n + 1)..Min(Len(a), Len(b)) :
              SubSeq(a, Len(a) - m + 1, Len(a)) # SubSeq(b, Len(b) - m + 1, Len(b))

\* The common prefix and suffix unchanged, the rest of the original deleted
\* and the rest of the modified inserted; no segment is empty.
DiffMain(text1, text2) ==
    LET p == CommonPrefixLen(text1, text2)
        rest1 == SubSeq(text1, p + 1, Len(text1))
        rest2 == SubSeq(text2, p + 1, Len(text2))
        q == CommonSuffixLen(rest1, rest2)
    IN SelectSeq(<<[code |-> 0, text |-> SubSeq(text1, 1, p)],
                   [code |-> -1, text |-> SubSeq(rest1, 1, Len(rest1) - q)],
                   [code |-> 1, text |-> SubSeq(rest2, 1, Len(rest2) - q)],
                   [code |-> 0, text |-> SubSeq(rest1, Len(rest1) - q + 1, Len(rest1))]>>,
                 LAMBDA seg : seg.text # <<>>)

(***************************************************************************)
(* The page template and the PDF renderer                                  *)
(***************************************************************************)
color_format == "<style type=\"text/css\">...</style></head>"

\* HTML_TEMPLATE % answers
HtmlTemplate(answers) ==
    <<"<!DOCTYPE html>", answers.html_title, answers.reset_css, answers.diff_css,
      answers.pygments_css, answers.page_title, answers.page_width, "leftcode">>
       \o answers.original_code \o <<"rightcode">> \o answers.modified_code
       \o <<answers.jquery_js, answers.diff_js, "</html>">>

\* pdfkit.from_string(html_content, pdf_path, ...): the PDF rendering of the page
PdfOf(html_content) == <<"%PDF">> \o html_content

(***************************************************************************)
(* The run: __main__ -> main -> format -> write, then the PDF export       *)
(***************************************************************************)
\* An exception nothing catches: the run ends, what was assigned stays.
Raise(exc) ==
    /\ pc' = "aborted"
    /\ error' = exc

\* read_json_files(file1): open(file_path, 'r')
OpenFile1 ==
    /\ pc = "open1"
    /\ \/ /\ file1.kind = "missing"
          /\ Raise("IOError")
          /\ UNCHANGED handles
       \/ /\ file1.kind # "missing"
          /\ handles' = handles \cup {"file1"}
          /\ pc' = "load1"
          /\ UNCHANGED error
    /\ UNCHANGED <<file1, file2, fromlines, tolines, diff, painted_original_code,
                   painted_modified_code, htmlContents, index_html, html_source,
                   output_pdf, stages>>

\* read_json_files(file1): json.load(f) and the end of the with block
LoadFile1 ==
    /\ pc = "load1"
    /\ handles' = handles \ {"file1"}
    /\ \/ /\ file1.kind = "garbage"
          /\ Raise("JSONDecodeError")
          /\ UNCHANGED fromlines
       \/ /\ file1.kind = "json"
          /\ fromlines' = file1.entries
          /\ pc' = "extract1"
          /\ UNCHANGED error
    /\ UNCHANGED <<file1, file2, tolines, diff, painted_original_code,
                   painted_modified_code, htmlContents, index_html, html_source,
                   output_pdf, stages>>

\* fromlines = extract_data_from_json(fromlines, 'transcription')
ExtractFile1 ==
    /\ pc = "extract1"
    /\ LET r == ExtractDataFromJson(fromlines, "transcription")
       IN \/ /\ r.raised # ""
             /\ Raise(r.raised)
             /\ UNCHANGED <<fromlines, stages>>
          \/ /\ r.raised = ""
             /\ fromlines' = r.value
             /\ stages' = Append(stages, "load1")
             /\ pc' = "open2"
             /\ UNCHANGED error
    /\ UNCHANGED <<file1, file2, tolines, diff, painted_original_code,
                   painted_modified_code, htmlContents, index_html, html_source,
                   output_pdf, handles>>

\* read_json_files(file2): open(file_path, 'r')
OpenFile2 ==
    /\ pc = "open2"
    /\ \/ /\ file2.kind = "missing"
          /\ Raise("IOError")
          /\ UNCHANGED handles
       \/ /\ file2.kind # "missing"
          /\ handles' = handles \cup {"file2"}
          /\ pc' = "load2"
          /\ UNCHANGED error
    /\ UNCHANGED <<file1, file2, fromlines, tolines, diff, painted_original_code,
                   painted_modified_code, htmlContents, index_html, html_source,
                   output_pdf, stages>>

\* read_json_files(file2): json.load(f) and the end of the with block
LoadFile2 ==
    /\ pc = "load2"
    /\ handles' = handles \ {"file2"}
    /\ \/ /\ file2.kind = "garbage"
          /\ Raise("JSONDecodeError")
          /\ UNCHANGED tolines
       \/ /\ file2.kind = "json"
          /\ tolines' = file2.entries
          /\ pc' = "extract2"
          /\ UNCHANGED error
    /\ UNCHANGED <<file1, file2, fromlines, diff, painted_original_code,
                   painted_modified_code, htmlContents, index_html, html_source,
                   output_pdf, stages>>

\* tolines = extract_data_from_json(tolines, 'transcription')
ExtractFile2 ==
    /\ pc = "extract2"
    /\ LET r == ExtractDataFromJson(tolines, "transcription")
       IN \/ /\ r.raised # ""
             /\ Raise(r.raised)
             /\ UNCHANGED <<tolines, stages>>
          \/ /\ r.raised = ""
             /\ tolines' = r.value
             /\ stages' = Append(stages, "load2")
             /\ pc' = "diff"
             /\ UNCHANGED error
    /\ UNCHANGED <<file1, file2, fromlines, diff, painted_original_code,
                   painted_modified_code, htmlContents, index_html, html_source,
                   output_pdf, handles>>

\* diff = dmp.diff_main(''.join(fromlines), ''.join(tolines)); cleanupSemantic
ComputeDiff ==
    /\ pc = "diff"
    /\ diff' = DiffMain(fromlines, tolines)
    /\ stages' = Append(stages, "diff")
    /\ pc' = "paint_original"
    /\ UNCHANGED <<file1, file2, fromlines, tolines, painted_original_code,
                   painted_modified_code, htmlContents, index_html, html_source,
                   output_pdf, handles, error>>

\* painted_original_code = paint_text(diff, True)
PaintOriginal ==
    /\ pc = "paint_original"
    /\ painted_original_code' = PaintText(diff, TRUE)
    /\ stages' = Append(stages, "render_original")
    /\ pc' = "paint_modified"
    /\ UNCHANGED <<file1, file2, fromlines, tolines, diff, painted_modified_code,
                   htmlContents, index_html, html_source, output_pdf, handles, error>>

\* painted_modified_code = paint_text(diff)
PaintModified ==
    /\ pc = "paint_modified"
    /\ painted_modified_code' = PaintText(diff, FALSE)
    /\ stages' = Append(stages, "render_modified")
    /\ pc' = "assemble"
    /\ UNCHANGED <<file1, file2, fromlines, tolines, diff, painted_original_code,
                   htmlContents, index_html, html_source, output_pdf, handles, error>>

\* answers = {...}; htmlContents = HTML_TEMPLATE % answers; return htmlContents
Assemble ==
    /\ pc = "assemble"
    /\ htmlContents' =
          HtmlTemplate([html_title |-> "Transcript Comparision",
                        reset_css |-> "cwd/deps/reset.css",
                        pygments_css |-> "cwd/deps/codeformats/vs.css",
                        diff_css |-> "cwd/deps/diff.css",
                        page_title |-> "Transcript Comparision",
                        original_code |-> <<color_format>> \o painted_original_code,
                        modified_code |-> <<color_format>> \o painted_modified_code,
                        jquery_js |-> "cwd/deps/jquery.min.js",
                        diff_js |-> "cwd/deps/diff.js",
                        page_width |-> "page-full-width"])
    /\ stages' = Append(stages, "assemble")
    /\ pc' = "write_open"
    /\ UNCHANGED <<file1, file2, fromlines, tolines, diff, painted_original_code,
                   painted_modified_code, index_html, html_source, output_pdf,
                   handles, error>>

\* write(): fh = io.open(path, 'w'), which may fail, and truncates the file
WriteOpen ==
    /\ pc = "write_open"
    /\ \/ /\ Raise("IOError")
          /\ UNCHANGED <<index_html, handles>>
       \/ /\ index_html' = [exists |-> TRUE, content |-> <<>>]
          /\ handles' = handles \cup {"index.html:w"}
          /\ pc' = "write_write"
          /\ UNCHANGED error
    /\ UNCHANGED <<file1, file2, fromlines, tolines, diff, painted_original_code,
                   painted_modified_code, htmlContents, html_source, output_pdf, stages>>

WriteWritePartial ==
    /\ pc = "write_write"
    /\ index_html' = [exists |-> TRUE, content |-> <<>>]
    /\ pc' = "write_close"
    /\ UNCHANGED <<file1, file2, fromlines, tolines, diff, painted_original_code,
                   painted_modified_code, htmlContents, html_source, output_pdf,
                   handles, stages, error>>

\* write(): fh.write(htmlContents); when it raises, part of the text may be
\* on disk and fh.close() is not reached
WriteWrite ==
    /\ pc = "write_write"
    /\ \/ /\ \E n \in {0, Len(htmlContents) \div 2} :
                index_html' = [exists |-> TRUE, content |-> SubSeq(htmlContents, 1, n)]
          /\ Raise("IOError")
       \/ /\ index_html' = [exists |-> TRUE, content |-> htmlContents]
          /\ pc' = "write_close"
          /\ UNCHANGED error
    /\ UNCHANGED <<file1, file2, fromlines, tolines, diff, painted_original_code,
                   painted_modified_code, htmlContents, html_source, output_pdf,
                   handles, stages>>

\* write(): fh.close()
WriteClose ==
    /\ pc = "write_close"
    /\ handles' = handles \ {"index.html:w"}
    /\ stages' = Append(stages, "write")
    /\ pc' = "html_open"
    /\ UNCHANGED <<file1, file2, fromlines, tolines, diff, painted_original_code,
                   painted_modified_code, htmlContents, index_html, html_source,
                   output_pdf, error>>

\* __main__: with open(outputpath, "r") as file
HtmlOpen ==
    /\ pc = "html_open"
    /\ \/ /\ Raise("IOError")
          /\ UNCHANGED handles
       \/ /\ index_html.exists
          /\ handles' = handles \cup {"index.html:r"}
          /\ pc' = "html_read"
          /\ UNCHANGED error
    /\ UNCHANGED <<file1, file2, fromlines, tolines, diff, painted_original_code,
                   painted_modified_code, htmlContents, index_html, html_source,
                   output_pdf, stages>>

\* __main__: html_source = file.read() and the end of the with block
HtmlRead ==
    /\ pc = "html_read"
    /\ handles' = handles \ {"index.html:r"}
    /\ \/ /\ Raise("IOError")
          /\ UNCHANGED html_source
       \/ /\ html_source' = index_html.content
          /\ pc' = "convert"
          /\ UNCHANGED error
    /\ UNCHANGED <<file1, file2, fromlines, tolines, diff, painted_original_code,
                   painted_modified_code, htmlContents, index_html, output_pdf, stages>>

\* convert_html_to_pdf(html_source, "output.pdf"), then the script ends
ConvertHtmlToPdf ==
    /\ pc = "convert"
    /\ \/ /\ Raise("ExportError")
          /\ UNCHANGED <<output_pdf, stages>>
       \/ /\ output_pdf' = [exists |-> TRUE, content |-> PdfOf(html_source)]
          /\ stages' = Append(stages, "pdf")
          /\ pc' = "done"
          /\ UNCHANGED error
    /\ UNCHANGED <<file1, file2, fromlines, tolines, diff, painted_original_code,
                   painted_modified_code, htmlContents, index_html, html_source, handles>>

\* The state when the script starts: nothing assigned, no output.pdf yet.
Unassigned ==
    /\ fromlines = <<>> /\ tolines = <<>>
    /\ painted_original_code = <<>> /\ painted_modified_code = <<>>
    /\ htmlContents = <<>> /\ html_source = <<>>
    /\ output_pdf = AbsentFile
    /\ handles = {}
    /\ error = ""

Init ==
    /\ pc = "open1"
    /\ file1 \in FileStates
    /\ file2 \in FileStates
    /\ index_html \in {AbsentFile, StaleFile}
    /\ diff = <<>>
    /\ stages = <<>>
    /\ Unassigned

Next ==
    \/ OpenFile1 \/ LoadFile1 \/ ExtractFile1
    \/ OpenFile2 \/ LoadFile2 \/ ExtractFile2
    \/ ComputeDiff \/ PaintOriginal \/ PaintModified \/ Assemble
    \/ WriteOpen \/ WriteWrite \/ WriteClose
    \/ HtmlOpen \/ HtmlRead \/ ConvertHtmlToPdf

Spec == Init /\ [][Next]_vars

\* format() entered at line 203 with an arbitrary edit script.
InitPaint ==
    /\ pc = "paint_original"
    /\ file1 = [kind |-> "json", entries |-> <<>>]
    /\ file2 = [kind |-> "json", entries |-> <<>>]
    /\ \E k \in 0..MaxSegs : diff \in [1..k -> Segments]
    /\ index_html = AbsentFile
    /\ stages = <<"load1", "load2", "diff">>
    /\ Unassigned

NextPaint == PaintOriginal \/ PaintModified

SpecPaint == InitPaint /\ [][NextPaint]_vars

(***************************************************************************)
(* Vocabulary of the properties of paint_text                              *)
(***************************************************************************)
Range(s) == {s[i] : i \in 1..Len(s)}

Done(stage) == stage \in Range(stages)

RECURSIVE Concat(_)
\* The concatenation of a sequence of strings.
Concat(ss) == IF ss = <<>> THEN <<>> ELSE Head(ss) \o Concat(Tail(ss))

RECURSIVE WithLineBreaks(_)
\* A string with each newline rendered as one line-break element.
WithLineBreaks(s) ==
    IF s = <<>> THEN <<>>
    ELSE <<IF Head(s) = NL THEN BR ELSE Head(s)>> \o WithLineBreaks(Tail(s))

Count(x, s) == Cardinality({i \in 1..Len(s) : s[i] = x})

\* The table of the renderer: what one segment contributes to one view.
TablePiece(seg, original) ==
    CASE seg.code = 0 -> seg.text
      [] seg.code = -1 ->
            IF original THEN <<SPAN_REMOVE>> \o seg.text \o <<"</span>">> ELSE <<>>
      [] seg.code = 1 ->
            IF original THEN <<>> ELSE <<SPAN_ADD>> \o seg.text \o <<"</span>">>

TableRender(d, original) ==
    Concat([i \in 1..Len(d) |-> TablePiece(d[i], original)])

\* The text of the segments a view keeps, and of the unchanged segments.
KeptCodes(original) == IF original THEN {0, -1} ELSE {0, 1}
TextOf(d, codes) ==
    Concat([i \in 1..Len(d) |-> IF d[i].code \in codes THEN d[i].text ELSE <<>>])
Backbone(d) == TextOf(d, {0})

\* No segment's text holds markup of its own.
MarkupFree(d) == \A i \in 1..Len(d) : Range(d[i].text) \cap Markup = {}

HasCode(d, c) == \E i \in 1..Len(d) : d[i].code = c /\ d[i].text # <<>>

RECURSIVE StripFrom(_, _)
\* Stripping the markers: the container's tags go, and so does every marked
\* span, from its opening tag to the closing tag that follows, text included.
StripFrom(s, inside) ==
    IF s = <<>> THEN <<>>
    ELSE IF Head(s) \in {SPAN_REMOVE, SPAN_ADD} THEN StripFrom(Tail(s), TRUE)
    ELSE IF Head(s) = "</span>" THEN StripFrom(Tail(s), FALSE)
    ELSE IF Head(s) \in Range(OpenContainer) \cup Range(CloseContainer) \/ inside
    THEN StripFrom(Tail(s), inside)
    ELSE <<Head(s)>> \o StripFrom(Tail(s), inside)
StripMarkers(s) == StripFrom(s, FALSE)

\* Removing only the tags: the container's and the spans' opening and closing.
StripTags(s) ==
    SelectSeq(s, LAMBDA x : x \notin {SPAN_REMOVE, SPAN_ADD, "</span>", "<body>",
                                      "<p class=\"text\">", "</body>", "</p>"})

BothPainted == Done("render_original") /\ Done("render_modified")

(***************************************************************************)
(* C1: in edit-script order, the original view appends an unchanged        *)
(* segment's text, a deleted segment's text wrapped in the removal marker, *)
(* and skips an inserted segment; the modified view appends an unchanged   *)
(* segment's text, an inserted segment's text wrapped in the addition      *)
(* marker, and skips a deleted segment; nothing else lies between the      *)
(* container's opening and closing.                                        *)
(***************************************************************************)
C1_PaintFollowsTable ==
    /\ Done("render_original") =>
          painted_original_code =
             <<"<body>", "<p class=\"text\">">>
                \o WithLineBreaks(TableRender(diff, TRUE)) \o <<"</body>", "</p>">>
    /\ Done("render_modified") =>
          painted_modified_code =
             <<"<body>", "<p class=\"text\">">>
                \o WithLineBreaks(TableRender(diff, FALSE)) \o <<"</body>", "</p>">>

C1_Witness ==
    /\ BothPainted
    /\ Len(diff) >= 2
    /\ HasCode(diff, -1) /\ HasCode(diff, 1)

(***************************************************************************)
(* C2 as stated: for all edit scripts the original view contains no        *)
(* addition marker and the modified view contains no removal marker.       *)
(***************************************************************************)
C2_DisjointnessAllScripts ==
    /\ Done("render_original") => "<span class=\"add\">" \notin Range(painted_original_code)
    /\ Done("render_modified") =>
          "<span class=\"remove\">" \notin Range(painted_modified_code)

(***************************************************************************)
(* C2 amended: for all edit scripts whose segment texts hold no markup of  *)
(* their own, the original view contains no addition marker and the        *)
(* modified view contains no removal marker.                               *)
(***************************************************************************)
C2_DisjointnessMarkupFree == MarkupFree(diff) => C2_DisjointnessAllScripts

C2_Witness ==
    /\ BothPainted
    /\ MarkupFree(diff)
    /\ HasCode(diff, -1) /\ HasCode(diff, 1)
    /\ "<span class=\"remove\">" \in Range(painted_original_code)
    /\ "<span class=\"add\">" \in Range(painted_modified_code)

(***************************************************************************)
(* C3 as stated: for any edit script, stripping all markers from the two   *)
(* views yields identical strings, and that string is the text of the      *)
(* unchanged segments in order, newlines rendered as line breaks.          *)
(***************************************************************************)
C3_BackboneAllScripts ==
    BothPainted =>
        /\ StripMarkers(painted_original_code) = StripMarkers(painted_modified_code)
        /\ StripMarkers(painted_original_code) = WithLineBreaks(Backbone(diff))

(***************************************************************************)
(* C3 amended: for any edit script whose segment texts hold no markup of   *)
(* their own, stripping all markers from the two views yields identical    *)
(* strings, and that string is the text of the unchanged segments in       *)
(* order, newlines rendered as line breaks.                                *)
(***************************************************************************)
C3_BackboneMarkupFree == MarkupFree(diff) => C3_BackboneAllScripts

C3_Witness ==
    /\ BothPainted
    /\ MarkupFree(diff)
    /\ HasCode(diff, 0)
    /\ HasCode(diff, -1) \/ HasCode(diff, 1)
    /\ painted_original_code # painted_modified_code

(***************************************************************************)
(* C7: a fragment holds no newline: each newline of the text a view keeps, *)
(* in an unchanged segment or inside a marked one, has become exactly one  *)
(* line-break element, so the line breaks introduced are as many as the    *)
(* newlines of the segments the view keeps.                                *)
(***************************************************************************)
NewlinesGone(fragment, original) ==
    /\ NL \notin Range(fragment)
    /\ Count(BR, fragment) =
          Count(NL, TextOf(diff, KeptCodes(original)))
             + Count(BR, TextOf(diff, KeptCodes(original)))
    /\ Len(fragment) =
          Len(TableRender(diff, original)) + Len(OpenContainer) + Len(CloseContainer)

C7_NoLiteralNewline ==
    /\ Done("render_original") => NewlinesGone(painted_original_code, TRUE)
    /\ Done("render_modified") => NewlinesGone(painted_modified_code, FALSE)

C7_Witness ==
    /\ BothPainted
    /\ \E i, j \in 1..Len(diff) :
          /\ diff[i].code = 0 /\ NL \in Range(diff[i].text)
          /\ diff[j].code = -1 /\ NL \in Range(diff[j].text)
    /\ Count(BR, painted_original_code) = 2

(***************************************************************************)
(* C8: a fragment is correctly nested markup wrapped once in the outer     *)
(* container: the container is opened exactly once at the very start and   *)
(* closed exactly once at the very end, every element is closed in the     *)
(* reverse order of its opening, and every marked span is closed before    *)
(* the next segment begins and before the container closes.                *)
(***************************************************************************)
OpeningTags == {"<body>", "<p class=\"text\">", SPAN_REMOVE, SPAN_ADD}
ClosingTagOf(tag) ==
    CASE tag = "<body>" -> "</body>"
      [] tag = "<p class=\"text\">" -> "</p>"
      [] OTHER -> "</span>"

RECURSIVE NestedFrom(_, _)
\* Reading s with the stack of the elements still open: a closing tag closes
\* the element opened last, and nothing is left open at the end.
NestedFrom(s, stack) ==
    IF s = <<>> THEN stack = <<>>
    ELSE IF Head(s) \in OpeningTags THEN NestedFrom(Tail(s), <<Head(s)>> \o stack)
    ELSE IF Head(s) \in {"</body>", "</p>", "</span>"}
    THEN /\ stack # <<>>
         /\ Head(s) = ClosingTagOf(Head(stack))
         /\ NestedFrom(Tail(s), Tail(stack))
    ELSE NestedFrom(Tail(s), stack)

WrappedOnce(fragment) ==
    /\ Len(fragment) >= 4
    /\ SubSeq(fragment, 1, 2) = <<"<body>", "<p class=\"text\">">>
    /\ Count("<body>", fragment) = 1 /\ Count("<p class=\"text\">", fragment) = 1
    /\ Count("</body>", fragment) = 1 /\ Count("</p>", fragment) = 1
    /\ {fragment[Len(fragment) - 1], fragment[Len(fragment)]} = {"</body>", "</p>"}

C8_CorrectlyNested ==
    /\ Done("render_original") =>
          WrappedOnce(painted_original_code) /\ NestedFrom(painted_original_code, <<>>)
    /\ Done("render_modified") =>
          WrappedOnce(painted_modified_code) /\ NestedFrom(painted_modified_code, <<>>)

(***************************************************************************)
(* C10: for an edit script whose segment texts hold no markup of their     *)
(* own, with A the text of its unchanged and deleted segments and B the    *)
(* text of its unchanged and inserted segments, removing only the          *)
(* container and the span tags from the original view yields A, and from   *)
(* the modified view B, each newline replaced by a line break; for a       *)
(* single unchanged segment X the two views are identical, hold no marker, *)
(* and are X with newlines converted inside the container.                 *)
(***************************************************************************)
C10_ViewsReconstructDocuments ==
    MarkupFree(diff) =>
        /\ Done("render_original") =>
              StripTags(painted_original_code) = WithLineBreaks(TextOf(diff, {0, -1}))
        /\ Done("render_modified") =>
              StripTags(painted_modified_code) = WithLineBreaks(TextOf(diff, {0, 1}))
        /\ BothPainted /\ Len(diff) = 1 /\ diff[1].code = 0 =>
              /\ painted_original_code = painted_modified_code
              /\ Range(painted_original_code) \cap {SPAN_REMOVE, SPAN_ADD} = {}
              /\ painted_original_code =
                    <<"<body>", "<p class=\"text\">">>
                       \o WithLineBreaks(diff[1].text) \o <<"</body>", "</p>">>

C10_Witness ==
    /\ BothPainted
    /\ MarkupFree(diff)
    /\ HasCode(diff, -1) /\ HasCode(diff, 1)
    /\ NL \in Range(TextOf(diff, {0, -1}))
    /\ TextOf(diff, {0, -1}) # TextOf(diff, {0, 1})

(***************************************************************************)
(* Vocabulary of the properties of the run                                 *)
(***************************************************************************)
\* speaker + ": " + entry[field] + "\n"
RenderedEntry(e) == e["speaker"] \o <<":", " ">> \o e["transcription"] \o <<"\n">>

\* The renderings of the entries, in order, a newline between neighbours.
Flattened(t) ==
    Concat([i \in 1..(2 * Len(t) - 1) |->
               IF i % 2 = 1 THEN RenderedEntry(t[(i + 1) \div 2]) ELSE <<"\n">>])

Complete(e) == "speaker" \in DOMAIN e /\ "transcription" \in DOMAIN e
LacksField(file) == file.kind = "json" /\ \E i \in 1..Len(file.entries) : ~Complete(file.entries[i])
Loadable(file) == file.kind = "json" /\ ~LacksField(file)

StageOrder ==
    <<"load1", "load2", "diff", "render_original", "render_modified", "assemble",
      "write", "pdf">>

IsPrefix(s, t) == Len(s) <= Len(t) /\ SubSeq(t, 1, Len(s)) = s

(***************************************************************************)
(* C4: extract_data_from_json returns the entries rendered as              *)
(* speaker + ": " + entry[field] + "\n" and joined with "\n", in the order *)
(* read: none dropped, duplicated or reordered.                            *)
(***************************************************************************)
C4_FlattenedInOrder ==
    /\ Done("load1") => fromlines = Flattened(file1.entries)
    /\ Done("load2") => tolines = Flattened(file2.entries)

C4_Witness ==
    /\ Done("load2")
    /\ Len(file1.entries) = 2 /\ file1.entries[1] # file1.entries[2]
    /\ Len(file2.entries) = 2 /\ file2.entries # file1.entries

(***************************************************************************)
(* C5: when an entry of a transcript lacks 'speaker' or the requested      *)
(* field, the load of that transcript fails as a whole with a              *)
(* missing-field error, no flattened text is returned, and nothing is      *)
(* diffed, rendered or assembled in that run.                              *)
(***************************************************************************)
C5_MissingFieldFailsLoad ==
    /\ LacksField(file1) /\ pc \notin {"open1", "load1", "extract1"} =>
          pc = "aborted" /\ error = "KeyError" /\ fromlines = file1.entries
    /\ Loadable(file1) /\ LacksField(file2)
          /\ pc \notin {"open1", "load1", "extract1", "open2", "load2", "extract2"} =>
          pc = "aborted" /\ error = "KeyError" /\ tolines = file2.entries
    /\ LacksField(file1) \/ LacksField(file2) =>
          /\ Range(stages) \cap {"diff", "render_original", "render_modified", "assemble"} = {}
          /\ diff = <<>> /\ painted_original_code = <<>> /\ painted_modified_code = <<>>
          /\ htmlContents = <<>>

C5_Witness ==
    /\ Loadable(file1)
    /\ Len(file2.entries) = 2 /\ Complete(file2.entries[1]) /\ ~Complete(file2.entries[2])
    /\ pc = "aborted" /\ error = "KeyError"

InsideOperation == {"load1", "load2", "write_write", "write_close", "html_read"}

C9_HandlesScoped == pc \notin InsideOperation => handles = {}

=============================================================================
